---- MODULE Spec2Model ----
(***************************************************************************)
(* CrackBox (src/main.rs): an axum server with three routes.               *)
(*   POST /api/v2/rooms                    -> make_room                    *)
(*   GET  /api/v2/rooms/:room_id/play      -> room_upgrade, which spawns   *)
(*                                            host_handler / player_handler*)
(*   GET  /api/v2/app-configs/:game_name   -> app_configs                  *)
(* The only shared mutable state of the process is the atomic counter PC.  *)
(* Every websocket handler runs as its own tokio task; an unwrap() that    *)
(* fails panics that task and nothing else.                                *)
(***************************************************************************)
EXTENDS Integers, Sequences, FiniteSets, TLC

\* ---------------------------------------------------------------- bounds
MaxConns == 2      \* websocket upgrade requests issued in a run
MaxCreates == 2    \* POST /api/v2/rooms requests issued in a run

Conns == 1..MaxConns

\* ------------------------------------------------------ program constants
PCInit == 3                       \* static PC: AtomicU32 = AtomicU32::new(3)
Limb == 65536                     \* a u32 is held as two 16-bit limbs, hi and lo
RoomCode == "OKOK"                \* RoomResponseBody.code
RoomHost == "lbssexercise.info"   \* RoomResponseBody.host
RoomToken == "000000000000000000000000"   \* RoomResponseBody.token
WelcomeOpcode == "client/welcome"
WelcomeSecret == "000000000000000000000000"
ServerUrl == "lbssexercise.info"  \* AppConfigsSettings.server_url
OnlyGame == "antique-freak"       \* the name app_configs asserts

\* --------------------------------------------------------------- inputs
RoomIds == {RoomCode, "AB12"}               \* :room_id path segment
Roles == {"host", "player"}                 \* RoomRole's two variants
QueryRoles == Roles \cup {"spectator"}      \* role=... as the client writes it
NoToken == "<none>"
Tokens == {RoomToken, "T-wrong", NoToken}   \* token presented by the client
GameNames == {OnlyGame, "quiplash"}         \* :game_name path segment
Msgs == {"start"}                           \* text frames a client sends

NoRole == ""                                \* the query string has no role=
NoRejection == ""

\* An upgrade request: the :room_id segment, the query string and whether
\* the request is a websocket handshake (GET with the Upgrade, Connection and
\* Sec-WebSocket-* headers). name, format and userId say whether the query
\* string carries name=, format= and user-id=. RoomQuery has no token field,
\* so a token in the query string is dropped by deserialisation.
\* Hosts present the room's token, a wrong one or none; the others none.
Requests ==
    {q \in [room : RoomIds, role : QueryRoles \cup {NoRole}, token : Tokens,
            name : BOOLEAN, format : BOOLEAN, userId : BOOLEAN, ws : BOOLEAN] :
        q.role # "host" => q.token = NoToken}

\* Requests whose query string has no token parameter at all.
PlainRequests == {q \in Requests : q.token = NoToken}

\* Why the extractors of room_upgrade turn a request down (NoRejection when
\* they do not). Path always succeeds. Query deserialises RoomQuery: a role
\* value that is no variant of RoomRole fails when it is read; the fields
\* role, name, format and user-id are all required (no Option, no default)
\* and the first one missing, in declaration order, is reported.
\* WebSocketUpgrade runs last and needs the handshake headers.
Rejection(q) ==
    IF q.role \notin Roles \cup {NoRole} THEN "unknown variant"
    ELSE IF q.role = NoRole THEN "missing field role"
    ELSE IF ~q.name THEN "missing field name"
    ELSE IF ~q.format THEN "missing field format"
    ELSE IF ~q.userId THEN "missing field user-id"
    ELSE IF ~q.ws THEN "not a websocket upgrade"
    ELSE NoRejection

\* What the model keeps of a connection's request.
NoReq == [room |-> "", role |-> NoRole, token |-> NoToken, rejection |-> NoRejection]

\* ------------------------------------------------------------ u32 values
\* A u32 v is the record [hi |-> v \div 2^16, lo |-> v % 2^16]; TLC's own
\* integers end at 2^31 - 1 and cannot hold the upper half of the range.
U32(n) == [hi |-> (n \div Limb) % Limb, lo |-> n % Limb]
U32Max == [hi |-> Limb - 1, lo |-> Limb - 1]

\* What ws.recv().await yields: Some(Ok(msg)), None (stream ended after the
\* peer closed) or Some(Err(e)) (I/O or protocol error, malformed frame).
RecvResults == {[kind |-> "msg", body |-> m] : m \in Msgs}
                 \cup {[kind |-> "none", body |-> ""], [kind |-> "err", body |-> ""]}

VARIABLES
    PC,             \* the AtomicU32 counter, as a u32 record
    roomResponses,  \* bodies make_room has returned, in order
    cfgResp,        \* outcome of the latest app_configs request
    pc,             \* per connection: position of its request / handler task
    req,            \* per connection: the upgrade request that opened it
    welcomes,       \* welcome messages in the order they were built
    sent,           \* per connection: messages its handler has passed to ws.send
    lastRecv,       \* per connection: the body ws.recv returned last ("" before any)
    earlier,        \* how many welcomes were built on connections that ended
                    \* before these: wraps * 2^32 + the u32 [hi, lo]
    first           \* the first welcome the process ever built (NoWelcome before it)

vars == <<PC, roomResponses, cfgResp, pc, req, welcomes, sent, lastRecv, earlier, first>>
wsVars == <<PC, pc, req, welcomes, sent, lastRecv>>

NoWelcome == [pc |-> U32(0), opcode |-> "", id |-> 0, secret |-> "", reconnect |-> FALSE]
NoneEarlier == [wraps |-> 0, hi |-> 0, lo |-> 0]
NoCfg == [name |-> "", outcome |-> "none", ok |-> FALSE, serverUrl |-> ""]

Init ==
    /\ PC = U32(PCInit)
    /\ earlier = NoneEarlier
    /\ first = NoWelcome
    /\ roomResponses = <<>>
    /\ cfgResp = NoCfg
    /\ pc = [c \in Conns |-> "idle"]
    /\ req = [c \in Conns |-> NoReq]
    /\ welcomes = <<>>
    /\ sent = [c \in Conns |-> <<>>]
    /\ lastRecv = [c \in Conns |-> ""]

\* ------------------------------------------------------------ make_room
RoomResponse == [ok |-> TRUE, host |-> RoomHost, code |-> RoomCode, token |-> RoomToken]

MakeRoom ==
    /\ Len(roomResponses) < MaxCreates
    /\ roomResponses' = Append(roomResponses, RoomResponse)
    /\ UNCHANGED <<first, earlier, PC, cfgResp, pc, req, welcomes, sent, lastRecv>>

\* ---------------------------------------------------------- app_configs
\* assert_eq!(game_name, "antique-freak") panics the request's task for any
\* other name; no response body is produced.
AppConfigsResult(game_name) ==
    IF game_name = OnlyGame
    THEN [name |-> game_name, outcome |-> "ok", ok |-> TRUE, serverUrl |-> ServerUrl]
    ELSE [name |-> game_name, outcome |-> "panicked", ok |-> FALSE, serverUrl |-> ""]

AppConfigs ==
    \E game_name \in GameNames :
        /\ cfgResp' = AppConfigsResult(game_name)
        /\ UNCHANGED <<first, earlier, PC, roomResponses, pc, req, welcomes, sent, lastRecv>>

\* --------------------------------------------------------- room_upgrade
\* A request for the play route drawn from Q; connections are numbered in
\* order of arrival. When every extractor succeeds room_upgrade answers 101
\* and on_upgrade spawns the handler of the role; the room_id is only logged.
Upgrade(c, Q) ==
    /\ pc[c] = "idle"
    /\ IF c = 1 THEN TRUE ELSE pc[c - 1] # "idle"
    /\ \E q \in Q :
        /\ req' = [req EXCEPT ![c] = [room |-> q.room, role |-> q.role,
                                      token |-> q.token, rejection |-> Rejection(q)]]
        /\ pc' = [pc EXCEPT ![c] =
                    IF Rejection(q) = NoRejection THEN "upgraded" ELSE "rejected"]
    /\ UNCHANGED <<first, earlier, PC, roomResponses, cfgResp, welcomes, sent, lastRecv>>

RoomUpgrade(c) == Upgrade(c, Requests)
RoomUpgradePlain(c) == Upgrade(c, PlainRequests)

\* ------------------------------------------------------------- handlers
FetchAddLost(v) == v

\* PC.fetch_add(1, AcqRel): the value stored by the atomic increment,
\* (v + 1) mod 2^32: the carry runs from lo into hi and u32::MAX wraps to 0.
FetchAdd(v) ==
    IF v.lo < Limb - 1 THEN [hi |-> v.hi, lo |-> v.lo + 1]
    ELSE IF v.hi < Limb - 1 THEN [hi |-> v.hi + 1, lo |-> 0]
    ELSE [hi |-> 0, lo |-> 0]

HostWelcome(counter) ==
    [pc |-> counter, opcode |-> WelcomeOpcode, id |-> 1,
     secret |-> WelcomeSecret, reconnect |-> FALSE]

UnwindAbort(c) == [d \in Conns |-> "panicked"]

\* A failed unwrap() unwinds the handler's own task.
Unwind(c) == [pc EXCEPT ![c] = "panicked"]

\* First half of a handler: build the welcome (taking the counter) and call
\* ws.send with it; the task then suspends on the send's await.
BuildWelcome(c) ==
    /\ welcomes' = Append(welcomes, [conn |-> c, msg |-> HostWelcome(PC)])
    /\ PC' = FetchAdd(PC)
    /\ sent' = [sent EXCEPT ![c] = Append(@, HostWelcome(PC))]
    /\ pc' = [pc EXCEPT ![c] = "sending"]
    /\ first' = IF first = NoWelcome THEN HostWelcome(PC) ELSE first
    /\ UNCHANGED <<earlier, roomResponses, cfgResp, req, lastRecv>>

\* The send's await completes: Ok(()) enters the loop, Err panics on unwrap.
SendDone(c) ==
    /\ pc[c] = "sending"
    /\ \E ok \in BOOLEAN :
        pc' = IF ok THEN [pc EXCEPT ![c] = "attached"] ELSE Unwind(c)
    /\ UNCHANGED <<first, earlier, PC, roomResponses, cfgResp, req, welcomes, sent, lastRecv>>

RecvSentEcho(c, r) == [sent EXCEPT ![c] = Append(@, r.body)]

\* The value of ws.recv().await.unwrap().unwrap() is dropped: nothing is sent
\* to anybody when a message arrives.
RecvSent(c, r) == sent

\* One iteration of loop { ws.recv().await.unwrap().unwrap(); }: a message
\* keeps the loop going, None and Some(Err(_)) panic on their unwrap.
RecvLoop(c) ==
    /\ pc[c] = "attached"
    /\ \E r \in RecvResults :
        IF r.kind = "msg"
        THEN /\ lastRecv' = [lastRecv EXCEPT ![c] = r.body]
             /\ sent' = RecvSent(c, r)
             /\ pc' = pc
        ELSE /\ lastRecv' = lastRecv
             /\ sent' = sent
             /\ pc' = Unwind(c)
    /\ UNCHANGED <<first, earlier, PC, roomResponses, cfgResp, req, welcomes>>

HostHandlerStart(c) == pc[c] = "upgraded" /\ req[c].role = "host" /\ BuildWelcome(c)
HostHandlerSend(c) == req[c].role = "host" /\ SendDone(c)
HostHandlerRecv(c) == req[c].role = "host" /\ RecvLoop(c)

PlayerHandlerStart(c) == pc[c] = "upgraded" /\ req[c].role = "player" /\ BuildWelcome(c)
PlayerHandlerSend(c) == req[c].role = "player" /\ SendDone(c)
PlayerHandlerRecv(c) == req[c].role = "player" /\ RecvLoop(c)

Next ==
    \/ MakeRoom
    \/ AppConfigs
    \/ \E c \in Conns : RoomUpgrade(c)
    \/ \E c \in Conns : HostHandlerStart(c)
    \/ \E c \in Conns : HostHandlerSend(c)
    \/ \E c \in Conns : HostHandlerRecv(c)
    \/ \E c \in Conns : PlayerHandlerStart(c)
    \/ \E c \in Conns : PlayerHandlerSend(c)
    \/ \E c \in Conns : PlayerHandlerRecv(c)

Spec == Init /\ [][Next]_vars

\* The websocket handlers and app_configs alone: the tasks that can fail.
NextHandlers ==
    \/ AppConfigs
    \/ \E c \in Conns : RoomUpgradePlain(c)
    \/ \E c \in Conns : HostHandlerStart(c)
    \/ \E c \in Conns : HostHandlerSend(c)
    \/ \E c \in Conns : HostHandlerRecv(c)
    \/ \E c \in Conns : PlayerHandlerStart(c)
    \/ \E c \in Conns : PlayerHandlerSend(c)
    \/ \E c \in Conns : PlayerHandlerRecv(c)

SpecHandlers == Init /\ [][NextHandlers]_vars

\* The server late in its life: `earlier` welcomes have been built by
\* connections that have since ended, the first of them from the fresh counter,
\* so the counter stands at (3 + earlier) mod 2^32. The choices put the limb
\* carry, the u32 wrap and the return of the counter to 3 within reach.
AddU32(x, y) ==
    [hi |-> (x.hi + y.hi + ((x.lo + y.lo) \div Limb)) % Limb,
     lo |-> (x.lo + y.lo) % Limb]

EarlierChoices ==
    {NoneEarlier,
     [wraps |-> 0, hi |-> 0, lo |-> Limb - 1 - PCInit],
     [wraps |-> 0, hi |-> Limb - 1, lo |-> Limb - 2 - PCInit],
     [wraps |-> 0, hi |-> Limb - 1, lo |-> Limb - 1 - PCInit],
     [wraps |-> 0, hi |-> Limb - 1, lo |-> Limb - 1],
     [wraps |-> 1, hi |-> 0, lo |-> 0]}

InitLate ==
    /\ earlier \in EarlierChoices
    /\ PC = AddU32(U32(PCInit), earlier)
    /\ first = IF earlier = NoneEarlier THEN NoWelcome ELSE HostWelcome(U32(PCInit))
    /\ roomResponses = <<>>
    /\ cfgResp = NoCfg
    /\ pc = [c \in Conns |-> "idle"]
    /\ req = [c \in Conns |-> NoReq]
    /\ welcomes = <<>>
    /\ sent = [c \in Conns |-> <<>>]
    /\ lastRecv = [c \in Conns |-> ""]

NextWs ==
    \/ \E c \in Conns : RoomUpgradePlain(c)
    \/ \E c \in Conns : HostHandlerStart(c)
    \/ \E c \in Conns : HostHandlerSend(c)
    \/ \E c \in Conns : HostHandlerRecv(c)
    \/ \E c \in Conns : PlayerHandlerStart(c)
    \/ \E c \in Conns : PlayerHandlerSend(c)
    \/ \E c \in Conns : PlayerHandlerRecv(c)

SpecLate == InitLate /\ [][NextWs]_vars

\* ================================================================ claims
Upgraded(c) == pc[c] \in {"upgraded", "sending", "attached", "panicked"}
Attached(c) == pc[c] = "attached"
HostsAttached(r) ==
    {c \in Conns : Attached(c) /\ req[c].role = "host" /\ req[c].room = r}

\* C1: at most one host connection is attached to a room at any instant;
\* every further host upgrade for the same room code is turned away.
C1_AtMostOneHostPerRoom == \A r \in RoomIds : Cardinality(HostsAttached(r)) <= 1

\* C2: the room codes returned by successful room creations are pairwise
\* distinct.
C2_RoomCodesDistinct ==
    \A i, j \in 1..Len(roomResponses) :
        i # j => roomResponses[i].code # roomResponses[j].code

\* C3: the result.id of welcome messages is unique and strictly increases in
\* attach order.
C3_IdsStrictlyIncrease ==
    \A i, j \in 1..Len(welcomes) :
        i < j => welcomes[i].msg.id < welcomes[j].msg.id

\* C4: a message received from a host is passed on to every attached player
\* of its room and to nobody else; a message received from a player is passed
\* on to the attached host of its room and to nobody else.
Recipient(from, to) ==
    /\ to # from
    /\ Attached(to)
    /\ req[to].room = req[from].room
    /\ \/ req[from].role = "host" /\ req[to].role = "player"
       \/ req[from].role = "player" /\ req[to].role = "host"

C4_Relayed ==
    \A c \in Conns :
        (Attached(c) /\ lastRecv'[c] # lastRecv[c]) =>
            \A d \in Conns :
                sent'[d] = IF Recipient(c, d)
                           THEN Append(sent[d], lastRecv'[c])
                           ELSE sent[d]

\* C4: every step in which a handler receives a message relays it as above.
C4_RelayDirectional == [][C4_Relayed]_vars

\* C5: a role=host upgrade that presents a token other than the one make_room
\* issued for the room is never upgraded; a role=player upgrade is never
\* turned down for want of a token.
C5_WrongTokenHostRejected ==
    \A c \in Conns :
        /\ (/\ req[c].role = "host"
            /\ \E i \in 1..Len(roomResponses) :
                  /\ roomResponses[i].code = req[c].room
                  /\ roomResponses[i].token # req[c].token)
           => ~Upgraded(c)
        /\ (req[c].role = "player" /\ pc[c] = "rejected") =>
              req[c].rejection \in {"missing field name", "missing field format",
                                    "missing field user-id", "not a websocket upgrade"}

\* C6: an attached session that stops receiving (peer close, I/O error,
\* malformed frame) moves to Closed, and a Closed session stays Closed.
C6_ToClosed ==
    \A c \in Conns :
        /\ (Attached(c) /\ ~Attached(c)') => pc'[c] = "closed"
        /\ pc[c] = "closed" => pc'[c] = "closed"

\* C6: every step that ends an attached session ends it in Closed, for good.
C6_ErrorMovesToClosed == [][C6_ToClosed]_vars

\* C7: a failing handler (welcome send error, receive error or close, failed
\* app_configs request) changes nothing of any other connection; every other
\* handler that has not ended can still take its next step, and the server
\* still takes new requests.
HandlerStep(c) ==
    \/ HostHandlerStart(c) \/ HostHandlerSend(c) \/ HostHandlerRecv(c)
    \/ PlayerHandlerStart(c) \/ PlayerHandlerSend(c) \/ PlayerHandlerRecv(c)

C7_CanProgress ==
    /\ \A c \in Conns :
        /\ pc[c] \in {"upgraded", "sending", "attached"} => ENABLED HandlerStep(c)
        /\ (pc[c] = "idle" /\ (IF c = 1 THEN TRUE ELSE pc[c - 1] # "idle")) => ENABLED RoomUpgrade(c)
    /\ ENABLED AppConfigs

C7_OthersUntouched ==
    /\ \A c \in Conns :
        (pc[c] # "panicked" /\ pc'[c] = "panicked") =>
            /\ \A d \in Conns \ {c} :
                /\ pc'[d] = pc[d]
                /\ req'[d] = req[d]
                /\ sent'[d] = sent[d]
                /\ lastRecv'[d] = lastRecv[d]
            /\ UNCHANGED <<first, earlier, PC, welcomes, cfgResp>>
    /\ (cfgResp' # cfgResp /\ cfgResp'.outcome = "panicked") => UNCHANGED wsVars

\* C7: failures are isolated per connection, in every state and every step.
C7_FailuresIsolated == []C7_CanProgress /\ [][C7_OthersUntouched]_vars

C7_Witness ==
    \E c, d \in Conns :
        /\ pc[c] = "panicked"
        /\ Attached(d) /\ lastRecv[d] # ""
        /\ cfgResp.outcome = "panicked"

\* C8: the configuration lookup answers every game name with the
\* same settings blob and never fails.
C8_ConfigNeverFails ==
    cfgResp.outcome # "none" =>
        cfgResp = [name |-> cfgResp.name, outcome |-> "ok",
                   ok |-> TRUE, serverUrl |-> ServerUrl]

\* C9: a handler passes exactly one message to its connection, the
\* client/welcome message, before its first receive; whatever it receives
\* afterwards, it sends nothing more.
C9_OnlyTheWelcome ==
    \A c \in Conns :
        /\ pc[c] \in {"idle", "rejected", "upgraded"} => sent[c] = <<>>
        /\ pc[c] \in {"sending", "attached", "panicked"} =>
              /\ Len(sent[c]) = 1
              /\ sent[c][1].opcode = WelcomeOpcode
              /\ \E n \in 1..Len(welcomes) : welcomes[n] = [conn |-> c, msg |-> sent[c][1]]
        /\ lastRecv[c] # "" => pc[c] \in {"attached", "panicked"}

C9_Witness ==
    \E c, d \in Conns :
        /\ req[c].role = "host" /\ req[d].role = "player"
        /\ Attached(c) /\ lastRecv[c] # ""
        /\ Attached(d) /\ lastRecv[d] # ""

\* The welcome at place k of the log is welcome number earlier + k of the
\* process; Ordinal(k) is that number mod 2^32.
Ordinal(k) == AddU32(earlier, U32(k))
IsFirst(k) == earlier = NoneEarlier /\ k = 1

\* C10 (as stated): no two welcome messages carry the same pc: not two of the
\* connections at hand, and none of them and the first welcome of the process.
C10_PcPairwiseDistinct ==
    /\ \A i, j \in 1..Len(welcomes) :
          i # j => welcomes[i].msg.pc # welcomes[j].msg.pc
    /\ \A k \in 1..Len(welcomes) :
          ~IsFirst(k) => welcomes[k].msg.pc # first.pc

\* C10 (amended): the counter starts at 3 and every welcome takes it and adds
\* exactly 1 atomically, so the n-th welcome built carries (3 + n - 1) mod 2^32
\* and no increment is lost; welcomes fewer than 2^32 apart carry distinct
\* pc values, and a welcome carries the pc of the first one, 3, exactly when
\* it is a multiple of 2^32 welcomes after it.
C10_PcSequence ==
    /\ PC = AddU32(U32(PCInit), Ordinal(Len(welcomes)))
    /\ \A k \in 1..Len(welcomes) :
          welcomes[k].msg.pc = AddU32(U32(PCInit), Ordinal(k - 1))
    /\ \A i, j \in 1..Len(welcomes) :
          i # j => welcomes[i].msg.pc # welcomes[j].msg.pc
    /\ \A k \in 1..Len(welcomes) :
          /\ first # NoWelcome /\ first.pc = U32(PCInit)
          /\ welcomes[k].msg.pc = first.pc <=> Ordinal(k - 1) = U32(0)

\* Two handlers in flight at once, the later connection having taken the
\* counter first: welcomes number 2^32 and 2^32 + 1 of the process, the
\* second of which carries 3 as the first welcome did.
C10_Witness ==
    \E i, j \in 1..Len(welcomes) :
        /\ i < j /\ welcomes[i].conn > welcomes[j].conn
        /\ earlier = [wraps |-> 0, hi |-> Limb - 1, lo |-> Limb - 1]
        /\ welcomes[i].msg.pc = U32(2) /\ welcomes[j].msg.pc = first.pc
        /\ pc[welcomes[i].conn] = "sending" /\ pc[welcomes[j].conn] = "sending"
        /\ req[welcomes[i].conn].role # req[welcomes[j].conn].role

====
